---- MODULE Spec2Model ----
(***************************************************************************)
(* Screens of sunpy.coordinates.screens: the line-of-sight distance of a   *)
(* 2D helioprojective coordinate under a spherical or a planar screen.     *)
(*                                                                         *)
(* Geometry is exact.  Positions are integer vectors.  A line-of-sight     *)
(* direction is an integer vector Dint of length DirScale, standing for    *)
(* the unit vector Dint / DirScale.  A distance is a record                *)
(*     [k |-> "num", p, q, den]   standing for  (p + sqrt(q)) / den,       *)
(* with q >= 0 and den > 0, or the IEEE values NaN, +inf, -inf.            *)
(***************************************************************************)
EXTENDS Integers, Sequences, FiniteSets, TLC

VARIABLES pc, screen, frame, distance, outcome, stack, entered, dflt, resolved

vars == <<pc, screen, frame, distance, outcome, stack, entered, dflt, resolved>>

(* ------------------------------ bounds --------------------------------- *)

MaxCoord == 1

MaxR == 2

DirScale == 3

MaxPts == 2

MaxDepth == 2

(* --------------------------- input domains ----------------------------- *)

Coord == (0 - MaxCoord)..MaxCoord

\* heliocentric (Stonyhurst) cartesian positions, Sun centre at <<0,0,0>>
Vec3 == Coord \X Coord \X Coord

DirCoord == (0 - DirScale)..DirScale

\* frame.represent_as(UnitSphericalRepresentation): the integer vectors of length DirScale
Dir == {d \in DirCoord \X DirCoord \X DirCoord :
          d[1] * d[1] + d[2] * d[2] + d[3] * d[3] = DirScale * DirScale}

Frames == UNION {[observer_radius : 1..MaxR, pts : [1..n -> Dir]] : n \in 1..MaxPts}

\* the keyword arguments a constructor call may carry: none, or only_off_disk
Kwargs == {<<>>, <<TRUE>>, <<FALSE>>}

ScreenTypes == {"spherical", "planar"}

(* ------------------------------ numbers -------------------------------- *)

NaN == [k |-> "nan", p |-> 0, q |-> 0, den |-> 1]

Inf(sign) == [k |-> "inf", p |-> sign, q |-> 0, den |-> 1]

Num(p, q, den) == [k |-> "num", p |-> p, q |-> q, den |-> den]

\* num / den as a distance, den # 0
Ratio(num, den) == IF den > 0 THEN Num(num, 0, den) ELSE Num(0 - num, 0, 0 - den)

IsFinite(v) == v.k = "num"

IsNaN(v) == v.k = "nan"

\* v < 0, for a finite v
IsNegative(v) == v.k = "num" /\ v.p < 0 /\ v.p * v.p > v.q

\* v = num / den, for den > 0
EqRatio(v, num, den) ==
    /\ v.k = "num"
    /\ num * v.den - v.p * den >= 0
    /\ (num * v.den - v.p * den) * (num * v.den - v.p * den) = v.q * den * den

\* v >= num / den, for den > 0
GeRatio(v, num, den) ==
    /\ v.k = "num"
    /\ \/ num * v.den - v.p * den <= 0
       \/ (num * v.den - v.p * den) * (num * v.den - v.p * den) <= v.q * den * den

IsSquare(n) == \E r \in 0..n : r * r = n

Root(n) == CHOOSE r \in 0..n : r * r = n

Dot(a, b) == a[1] * b[1] + a[2] * b[2] + a[3] * b[3]

Sub(a, b) == <<a[1] - b[1], a[2] - b[2], a[3] - b[3]>>

Add(a, b) == <<a[1] + b[1], a[2] + b[2], a[3] + b[3]>>

Scale(k, a) == <<k * a[1], k * a[2], k * a[3]>>

(* ------------------------------ screens -------------------------------- *)

NoScreen == [type |-> "None"]

\* mutant: the flag defaults to true
DefaultOnlyOffDiskTrue == TRUE

DefaultOnlyOffDisk == FALSE

\* BaseScreen.__init__(self, type, only_off_disk=False)
BaseScreenInit(type, kwargs) ==
    [type |-> type,
     only_off_disk |-> IF kwargs = <<>> THEN DefaultOnlyOffDisk ELSE kwargs[1]]

\* SphericalScreen.__init__(self, center, **kwargs)
SphericalScreenInit(center, kwargs) ==
    [type |-> "spherical",
     only_off_disk |-> BaseScreenInit("spherical", kwargs).only_off_disk,
     center |-> center]

\* PlanarScreen.__init__(self, vantage_point, **kwargs)
PlanarScreenInit(vantage_point, kwargs) ==
    [type |-> "planar",
     only_off_disk |-> BaseScreenInit("planar", kwargs).only_off_disk,
     vantage_point |-> vantage_point]

\* mutant: the point is used in heliocentric axes, without transform_to(frame)
TransformToFrameSkipped(point, fr) == point

\* point.transform_to(frame).cartesian: the observer is the origin of the frame and
\* the Sun centre lies at observer.radius on its x axis
TransformToFrame(point, fr) == Add(point, <<fr.observer_radius, 0, 0>>)

\* SphericalScreen.radius ** 2: the squared heliocentric distance of the center
RadiusSq(self) == Dot(self.center, self.center)

\* the terms of the quadratic of one line of sight, scaled to integers:
\* c as it is, b * DirScale, (b**2 - 4*c) * DirScale**2
SphereC(self, fr) ==
    Dot(TransformToFrame(self.center, fr), TransformToFrame(self.center, fr)) - RadiusSq(self)

\* mutant: b = 2 * sphere_center.dot(rep), the sign of b lost
SphereBSignSlip(self, fr, d) == 2 * Dot(TransformToFrame(self.center, fr), d)

SphereB(self, fr, d) == (0 - 2) * Dot(TransformToFrame(self.center, fr), d)

SphereDisc(self, fr, d) ==
    SphereB(self, fr, d) * SphereB(self, fr, d) - 4 * SphereC(self, fr) * DirScale * DirScale

\* mutant: the square root taken of the discriminant clipped at 0
SphericalDistanceClipped(self, fr, d) ==
    IF SphereDisc(self, fr, d) < 0
    THEN Num(0 - SphereB(self, fr, d), 0, 2 * DirScale)
    ELSE Num(0 - SphereB(self, fr, d), SphereDisc(self, fr, d), 2 * DirScale)

\* ((-1*b) + np.sqrt(b**2 - 4*c)) / 2 for one line of sight; np.sqrt of a negative
\* number is NaN
SphericalDistance(self, fr, d) ==
    IF SphereDisc(self, fr, d) < 0
    THEN NaN
    ELSE Num(0 - SphereB(self, fr, d), SphereDisc(self, fr, d), 2 * DirScale)

\* mutant: the vantage point's position is not subtracted from the Sun centre's, so
\* the normal points from the observer to the vantage point
PlaneDirectionFromObserver(self, fr) == TransformToFrame(self.vantage_point, fr)

\* CartesianRepresentation(1, 0, 0) * frame.observer.radius - direction, before it is
\* normalised; direction.norm() ** 2 is Dot(v, v)
PlaneDirection(self, fr) ==
    Sub(Scale(fr.observer_radius, <<1, 0, 0>>), TransformToFrame(self.vantage_point, fr))

\* mutant: a division guarded against a zero denominator, giving 0
PlanarDistanceGuarded(self, fr, d) ==
    LET v    == PlaneDirection(self, fr)
        dnum == fr.observer_radius * v[1]
        dot  == Dot(d, v)
    IN  IF Dot(v, v) = 0 THEN NaN
        ELSE IF dot = 0 THEN Num(0, 0, 1)
        ELSE Ratio(dnum * DirScale, dot)

\* d_from_plane / rep.dot(direction) for one line of sight.  With v the unnormalised
\* direction and |v| its norm: d_from_plane = R * v.x / |v| and
\* rep.dot(direction) = Dot(d, v) / (DirScale * |v|).  |v| = 0 makes direction NaN.
PlanarDistance(self, fr, d) ==
    LET v    == PlaneDirection(self, fr)
        dnum == fr.observer_radius * v[1]
        dot  == Dot(d, v)
    IN  IF Dot(v, v) = 0 THEN NaN
        ELSE IF dot = 0
             THEN IF dnum = 0 THEN NaN ELSE IF dnum > 0 THEN Inf(1) ELSE Inf(0 - 1)
             ELSE Ratio(dnum * DirScale, dot)

\* screen.calculate_distance(frame) of a SphericalScreen or a PlanarScreen
ScreenDistance(self, fr) ==
    [i \in 1..Len(fr.pts) |->
        IF self.type = "spherical"
        THEN SphericalDistance(self, fr, fr.pts[i])
        ELSE PlanarDistance(self, fr, fr.pts[i])]

(* -------------------- constructing and calling a screen ---------------- *)

NoFrame == [observer_radius |-> 0, pts |-> <<>>]

Init ==
    /\ pc = "new"
    /\ screen = NoScreen
    /\ frame = NoFrame
    /\ distance = <<>>
    /\ outcome = "none"
    /\ stack = <<>>
    /\ entered = <<>>
    /\ dflt = <<>>
    /\ resolved = <<>>

ScopeVars == <<stack, entered, dflt, resolved>>

ConstructSpherical ==
    /\ pc = "new"
    /\ \E center \in Vec3, kwargs \in Kwargs :
          screen' = SphericalScreenInit(center, kwargs)
    /\ pc' = "constructed"
    /\ UNCHANGED <<frame, distance, outcome, ScopeVars>>

ConstructPlanar ==
    /\ pc = "new"
    /\ \E vantage_point \in Vec3, kwargs \in Kwargs :
          screen' = PlanarScreenInit(vantage_point, kwargs)
    /\ pc' = "constructed"
    /\ UNCHANGED <<frame, distance, outcome, ScopeVars>>

\* BaseScreen(type, only_off_disk=...) called directly: __init__ stores its arguments
ConstructBase ==
    /\ pc = "new"
    /\ \E type \in ScreenTypes, kwargs \in Kwargs :
          screen' = BaseScreenInit(type, kwargs)
    /\ pc' = "constructed"
    /\ UNCHANGED <<frame, distance, outcome, ScopeVars>>

IsBase(self) == self.type # "None" /\ DOMAIN self = {"type", "only_off_disk"}

\* screen.calculate_distance(frame) of a SphericalScreen or PlanarScreen
CalculateDistance ==
    /\ pc = "constructed"
    /\ ~IsBase(screen)
    /\ \E fr \in Frames :
          /\ frame' = fr
          /\ distance' = ScreenDistance(screen, fr)
    /\ outcome' = "returned"
    /\ pc' = "called"
    /\ UNCHANGED <<screen, ScopeVars>>

\* BaseScreen.calculate_distance: def calculate_distance(self) takes no frame, so a
\* call with a frame fails to bind; a call without one raises NotImplementedError
BaseCalculateDistance ==
    /\ pc = "constructed"
    /\ IsBase(screen)
    /\ \E fr \in Frames \cup {NoFrame} :
          /\ frame' = fr
          /\ outcome' = IF fr = NoFrame THEN "NotImplementedError" ELSE "TypeError"
    /\ distance' = <<>>
    /\ pc' = "called"
    /\ UNCHANGED <<screen, ScopeVars>>

NextCalc ==
    \/ ConstructSpherical
    \/ ConstructPlanar
    \/ ConstructBase
    \/ CalculateDistance
    \/ BaseCalculateDistance

SpecCalc == Init /\ [][NextCalc]_vars

(* ------------------ scoped activation and make_3d ---------------------- *)

\* the centers handed to the scoped activations: on the Sun-observer line
ScopeCenters == {v \in Vec3 : v[1] = MaxCoord /\ v[2] = 0 /\ v[3] = 0}

\* the default on-disk distance of a point: a finite distance, or NaN off the disk
DefaultVals == {NaN, Num(1, 0, 1)}

DefaultDistances(fr) == [1..Len(fr.pts) -> DefaultVals]

\* the screen deprojection consults: the top of the activation stack, or none
CurrentScreen(stk) == IF stk = <<>> THEN NoScreen ELSE stk[Len(stk)]

\* the blending of one point's default distance d with its screen distance s
Resolve(only_off_disk, d, s) ==
    IF ~only_off_disk THEN s
    ELSE IF IsFinite(d) THEN d
    ELSE IF IsFinite(s) THEN s
    ELSE NaN

\* make_3d of a frame whose default distances are dd, under the stack stk
Make3dDistances(stk, fr, dd) ==
    IF CurrentScreen(stk) = NoScreen
    THEN dd
    ELSE [i \in 1..Len(fr.pts) |->
             Resolve(CurrentScreen(stk).only_off_disk, dd[i],
                     ScreenDistance(CurrentScreen(stk), fr)[i])]

NoCall == /\ frame' = NoFrame
          /\ dflt' = <<>>
          /\ resolved' = <<>>

\* with Helioprojective.assume_spherical_screen(center, **kwargs):
EnterSphericalScope ==
    /\ Len(stack) < MaxDepth
    /\ \E center \in ScopeCenters, kwargs \in Kwargs :
          /\ stack' = Append(stack, SphericalScreenInit(center, kwargs))
          /\ entered' = Append(entered, [saved |-> stack, kwargs |-> kwargs])
    /\ outcome' = "none"
    /\ NoCall
    /\ UNCHANGED <<pc, screen, distance>>

\* the same with a PlanarScreen
EnterPlanarScope ==
    /\ Len(stack) < MaxDepth
    /\ \E vantage_point \in ScopeCenters, kwargs \in Kwargs :
          /\ stack' = Append(stack, PlanarScreenInit(vantage_point, kwargs))
          /\ entered' = Append(entered, [saved |-> stack, kwargs |-> kwargs])
    /\ outcome' = "none"
    /\ NoCall
    /\ UNCHANGED <<pc, screen, distance>>

\* the body of the innermost scope ends normally
ExitScope ==
    /\ stack # <<>>
    /\ stack' = SubSeq(stack, 1, Len(stack) - 1)
    /\ entered' = SubSeq(entered, 1, Len(entered) - 1)
    /\ outcome' = "none"
    /\ NoCall
    /\ UNCHANGED <<pc, screen, distance>>

\* mutant: no release on the error path, the entry stays on the stack
ExitScopeOnErrorNoRelease ==
    /\ stack # <<>>
    /\ stack' = stack
    /\ entered' = SubSeq(entered, 1, Len(entered) - 1)
    /\ outcome' = "BodyError"
    /\ NoCall
    /\ UNCHANGED <<pc, screen, distance>>

\* the body of the innermost scope raises: the scope releases and the error goes on
ExitScopeOnError ==
    /\ stack # <<>>
    /\ stack' = SubSeq(stack, 1, Len(stack) - 1)
    /\ entered' = SubSeq(entered, 1, Len(entered) - 1)
    /\ outcome' = "BodyError"
    /\ NoCall
    /\ UNCHANGED <<pc, screen, distance>>

\* h.make_3d() in the current scope
Make3d ==
    /\ resolved = <<>>
    /\ \E fr \in Frames :
          \E dd \in DefaultDistances(fr) :
             /\ frame' = fr
             /\ dflt' = dd
             /\ resolved' = Make3dDistances(stack, fr, dd)
    /\ outcome' = "returned"
    /\ UNCHANGED <<pc, screen, distance, stack, entered>>

NextScope ==
    \/ EnterSphericalScope
    \/ EnterPlanarScope
    \/ ExitScope
    \/ ExitScopeOnError
    \/ Make3d

SpecScope == Init /\ [][NextScope]_vars

(* ------------------------------ properties ----------------------------- *)

Called(type) == pc = "called" /\ screen.type = type /\ ~IsBase(screen)

Points == 1..Len(frame.pts)

\* S = center - observer, in the axes of the frame
ClaimS == <<screen.center[1] + frame.observer_radius, screen.center[2], screen.center[3]>>

\* S.D * DirScale for point i
ClaimSD(i) == Dot(ClaimS, frame.pts[i])

\* |S|^2 - radius^2, radius the distance of the center from the Sun centre
ClaimC == Dot(ClaimS, ClaimS) - Dot(screen.center, screen.center)

\* a quarter of the discriminant of t^2 - 2(S.D)t + (|S|^2 - radius^2), times DirScale^2
ClaimDisc(i) == ClaimSD(i) * ClaimSD(i) - ClaimC * DirScale * DirScale

\* t = (p + sqrt(q)) / den solves t^2 - 2(S.D)t + (|S|^2 - radius^2) = 0 for point i
SolvesQuadratic(t, i) ==
    /\ t.k = "num"
    /\ IF IsSquare(t.q)
       THEN DirScale * (t.p + Root(t.q)) * (t.p + Root(t.q))
              - 2 * ClaimSD(i) * t.den * (t.p + Root(t.q))
              + ClaimC * DirScale * t.den * t.den = 0
       ELSE /\ DirScale * (t.p * t.p + t.q) - 2 * ClaimSD(i) * t.den * t.p
                 + ClaimC * DirScale * t.den * t.den = 0
            /\ 2 * DirScale * t.p - 2 * ClaimSD(i) * t.den = 0

\* C1: SphericalScreen.calculate_distance returns normally, with one distance per sky
\* position, and the distance of a position is NaN exactly when the discriminant of its
\* quadratic is negative: a line of sight that misses the sphere gets NaN, raises
\* nothing and leaves the other positions' distances numbers.
C1_MissIsNaN ==
    Called("spherical") =>
        /\ outcome = "returned"
        /\ Len(distance) = Len(frame.pts)
        /\ \A i \in Points : (ClaimDisc(i) < 0) <=> IsNaN(distance[i])
        /\ \A i \in Points : (ClaimDisc(i) >= 0) <=> IsFinite(distance[i])

C1_Witness ==
    /\ Called("spherical")
    /\ \E i, j \in Points : ClaimDisc(i) < 0 /\ ClaimDisc(j) >= 0

\* C2: for every sky position whose discriminant is >= 0 the distance solves the
\* quadratic and is at least the mean S.D of its two roots, so no root is larger; when
\* the discriminant is 0 the distance is the single root S.D, not NaN.
C2_FarRoot ==
    Called("spherical") =>
        \A i \in Points :
            ClaimDisc(i) >= 0 =>
                /\ SolvesQuadratic(distance[i], i)
                /\ GeRatio(distance[i], ClaimSD(i), DirScale)
                /\ ClaimDisc(i) = 0 => EqRatio(distance[i], ClaimSD(i), DirScale)

C2_Witness ==
    /\ Called("spherical")
    /\ \E i, j \in Points :
          /\ ClaimDisc(i) = 0 /\ ClaimSD(i) # 0
          /\ ClaimDisc(j) > 0 /\ ~IsSquare(ClaimDisc(j))

\* C3: a SphericalScreen whose center is the observer's position (S = 0) gives every
\* sky position the same distance, the observer's distance from the Sun centre, which
\* is the radius of the screen.
C3_CenterAtObserver ==
    (Called("spherical") /\ ClaimS = <<0, 0, 0>>) =>
        /\ RadiusSq(screen) = frame.observer_radius * frame.observer_radius
        /\ \A i \in Points : EqRatio(distance[i], frame.observer_radius, 1)

C3_Witness ==
    /\ Called("spherical")
    /\ ClaimS = <<0, 0, 0>>
    /\ \E i, j \in Points : frame.pts[i] # frame.pts[j]

\* C6: invalid screen geometry is rejected when the screen is constructed, so no
\* screen of radius 0 and no plane without a normal ever exists or returns distances.
C6_InvalidGeometryRejected ==
    /\ (~IsBase(screen) /\ screen.type = "spherical") => screen.center # <<0, 0, 0>>
    /\ (~IsBase(screen) /\ screen.type = "planar") => screen.vantage_point # <<0, 0, 0>>

\* the normal of the plane, unnormalised: Sun centre minus vantage point
ClaimN == <<0 - screen.vantage_point[1], 0 - screen.vantage_point[2],
            0 - screen.vantage_point[3]>>

\* C7: PlanarScreen.calculate_distance returns normally, with one distance per sky
\* position; a position whose line of sight is parallel to the plane (D.n = 0) gets a
\* non-finite value and every other position a number.
C7_ParallelIsNonFinite ==
    (Called("planar") /\ ClaimN # <<0, 0, 0>>) =>
        /\ outcome = "returned"
        /\ Len(distance) = Len(frame.pts)
        /\ \A i \in Points : (Dot(frame.pts[i], ClaimN) = 0) <=> ~IsFinite(distance[i])

C7_Witness ==
    /\ Called("planar")
    /\ ClaimN # <<0, 0, 0>>
    /\ \E i, j \in Points :
          /\ Dot(frame.pts[i], ClaimN) = 0
          /\ Dot(frame.pts[j], ClaimN) # 0

\* C8: the base screen type cannot be used: no BaseScreen object is ever constructed,
\* and a call of the base calculate_distance raises NotImplementedError.
C8_BaseUnusable ==
    /\ ~IsBase(screen)
    /\ (pc = "called" /\ IsBase(screen)) => outcome = "NotImplementedError"

ScaleFactors == 1..3

\* C9: for every sky position with D.n # 0 the distance t of a PlanarScreen satisfies
\* t * (D.n) = observerRadius * n.x, with n the normalised vector from the vantage
\* point to the Sun centre, and a vantage point k times as far from the Sun centre in
\* the same direction gives the same distance.
C9_PointOnPlane ==
    (Called("planar") /\ ClaimN # <<0, 0, 0>>) =>
        \A i \in Points :
            Dot(frame.pts[i], ClaimN) # 0 =>
                /\ distance[i].k = "num"
                /\ distance[i].q = 0
                /\ distance[i].p * Dot(frame.pts[i], ClaimN)
                     = frame.observer_radius * ClaimN[1] * DirScale * distance[i].den
                /\ \A k \in ScaleFactors :
                      LET far == PlanarDistance(
                                    PlanarScreenInit(Scale(k, screen.vantage_point), <<>>),
                                    frame, frame.pts[i])
                      IN  EqRatio(distance[i], far.p, far.den)

C9_Witness ==
    /\ Called("planar")
    /\ ClaimN[1] # 0 /\ ClaimN[2] # 0
    /\ \E i \in Points :
          /\ Dot(frame.pts[i], ClaimN) # 0
          /\ frame.pts[i][1] # 0 /\ frame.pts[i][2] # 0

\* C10: calculate_distance never returns a negative finite distance: a line of sight
\* that meets the screen only behind the observer gets NaN.
C10_NeverNegative ==
    (pc = "called" /\ outcome = "returned") =>
        \A i \in Points : ~IsNegative(distance[i])

\* a make_3d call has returned while a screen is active
ActiveCall == resolved # <<>> /\ stack # <<>>

\* the keyword arguments the innermost open scope was entered with
PassedKwargs == entered[Len(entered)].kwargs

\* the screen distances of the points of the call
ScreenDistances == ScreenDistance(stack[Len(stack)], frame)

\* C4: while a screen is active the resolved distance of each point is chosen from its
\* default distance and its screen distance by the only_off_disk flag the screen was
\* constructed with: when the flag was not given (it defaults to false) or given as
\* false, the screen distance, also where the default distance is finite; when given as
\* true, the default distance where it is finite, else the screen distance where that
\* is finite, and NaN where both are non-finite.
C4_Blending ==
    ActiveCall =>
        \A i \in Points :
            /\ PassedKwargs \in {<<>>, <<FALSE>>} => resolved[i] = ScreenDistances[i]
            /\ PassedKwargs = <<TRUE>> =>
                  /\ IsFinite(dflt[i]) => resolved[i] = dflt[i]
                  /\ (~IsFinite(dflt[i]) /\ IsFinite(ScreenDistances[i]))
                        => resolved[i] = ScreenDistances[i]
                  /\ (~IsFinite(dflt[i]) /\ ~IsFinite(ScreenDistances[i]))
                        => IsNaN(resolved[i])

C4_Witness ==
    /\ ActiveCall
    /\ PassedKwargs = <<TRUE>>
    /\ \E i, j \in Points :
          /\ IsFinite(dflt[i]) /\ IsFinite(ScreenDistances[i])
          /\ dflt[i] # ScreenDistances[i]
          /\ ~IsFinite(dflt[j]) /\ ScreenDistances[j].k = "inf"

\* C5: a scope exit, normal or by an error of the body, leaves the activation stack
\* as it was right before that scope was entered, and a make_3d call resolves its
\* distances with the screen on top of the stack, or with none when the stack is empty.
C5_ScopedLifo ==
    [][/\ Len(entered') < Len(entered) => stack' = entered[Len(entered)].saved
       /\ (resolved = <<>> /\ resolved' # <<>>) =>
             IF stack' = <<>>
             THEN resolved' = dflt'
             ELSE \A i \in 1..Len(frame'.pts) :
                     resolved'[i] = Resolve(stack'[Len(stack')].only_off_disk, dflt'[i],
                                            ScreenDistance(stack'[Len(stack')], frame')[i])
      ]_vars

C5_Witness ==
    /\ outcome = "BodyError"
    /\ Len(stack) = 1
    /\ Len(entered) = 1

====
